---- MODULE Spec2Model ----
(***************************************************************************)
(* A model of acme_powerdns/acme_client.py: the Account object             *)
(* (create_account with the patched Client.register), the CertRequest      *)
(* session (request_tokens, answer_challenges) and the certificate         *)
(* authority they talk to.  The client is single-threaded: one call runs   *)
(* at a time, pc is its position.  Every request to the CA is one step;    *)
(* the CA may change the status of an authorization between two steps.     *)
(***************************************************************************)
EXTENDS Naturals, Sequences, FiniteSets

\* ------------------------------------------------------------------ bounds

\* create_account calls made by the caller
MaxCreate == 2
\* calls made on the session, of either kind
MaxCalls == 3
\* request_tokens calls made on the session
MaxRequestCalls == 2
\* answer_challenges calls made on the session
MaxAnswerCalls == 2
\* length of the domain list handed to request_tokens
MaxDomains == 2
\* contexts stored in the session
MaxContexts == 3
\* authorizations the CA creates
MaxAuthz == 2
\* polls of one authorization in poll_and_request_issuance (max_attempts)
MaxAttempts == 2
\* certificates in the chain the CA links from an issued certificate
MaxChain == 1

\* ------------------------------------------------------------------ values

None == "None"

Domains == {"a.example.com", "b.example.com"}

\* the content of the key file handed to create_account
KeyFiles == {"missing", "unreadable", "garbage", "k1", "k2"}
Keys == {"k1", "k2"}

\* the ctype strings a caller may pass; "dns-01" is not in the table
CTypes == {"dns01", "http01", "tlssni01", "dns-01"}

\* all sequences over S of length 0..n
RECURSIVE SeqsUpTo(_, _)
SeqsUpTo(S, n) ==
  IF n = 0 THEN {<<>>}
  ELSE LET shorter == SeqsUpTo(S, n - 1)
       IN shorter \cup {Append(s, x) : s \in {t \in shorter : Len(t) = n - 1}, x \in S}

DomainLists == SeqsUpTo(Domains, MaxDomains)
CSRs == SUBSET Domains \ {{}}

Range(s) == {s[k] : k \in 1..Len(s)}

\* ------------------------------------------------------------------ state

VARIABLES
  caAccounts,  \* CA: the accounts, a set of [key, uri]
  caAuthz,     \* CA: the authorizations, a sequence indexed by id
  acct,        \* the Account object: _acme, _regr
  cr,          \* the CertRequest object: its fields, exists = constructed
  pc,          \* position of the running call, "idle" between calls
  fr,          \* arguments and locals of the running (or last) call
  reqs,        \* the requests the running (or last) call sent to the CA
  result,      \* outcome of the last call: op, exc (exception class), msg
  ret,         \* value returned by the last call
  hist         \* what the caller has observed: results of create_account,
               \* calls made, answer submissions per stored context

vars == <<caAccounts, caAuthz, acct, cr, pc, fr, reqs, result, ret, hist>>

\* ------------------------------------------------------------------ results

NoUri == <<>>
NoRegr == [uri |-> NoUri, new_authzr_uri |-> NoUri, terms_of_service |-> None]

\* a request sent to the CA: method, resource, what it is about, and what came
\* back ("error": no usable response, the transport or the check of the
\* response raised)
Req(method, to, arg, out) == [method |-> method, to |-> to, arg |-> arg, out |-> out]

\* the call returned normally
Returned(op) == [op |-> op, exc |-> "none", msg |-> ""]
\* the call raised exc(msg)
Raised(op, exc, msg) == [op |-> op, exc |-> exc, msg |-> msg]

NoRet == [regr |-> NoRegr, acme |-> None, account_key |-> None,
          tokens |-> <<>>, cert |-> <<>>, chain |-> <<>>]

NoFrame == [op |-> None, keyfile |-> None, key |-> None, loc |-> NoUri,
            domains |-> <<>>, ctype |-> None, csr |-> {},
            i |-> 0, tokens |-> <<>>, pre |-> <<>>,
            authzr |-> <<>>, authzrs |-> <<>>,
            waiting |-> <<>>, attempts |-> <<>>, updated |-> <<>>,
            exhausted |-> {}, crt |-> <<>>]

\* ------------------------------------------------------------------ the CA: accounts

AccountUri(n) == <<"reg", n>>
NewAuthzUri == <<"new-authz">>

AccountsOf(key) == {a \in caAccounts : a.key = key}

\* The CA's answer to a new-registration request signed with key: 201 Created
\* with the new account's URI in Location, or 409 Conflict with the existing
\* account's URI in Location when the key already has an account.
CANewRegResponse(key) ==
  IF AccountsOf(key) = {}
    THEN [status |-> "CREATED",
          location |-> AccountUri(Cardinality(caAccounts) + 1), next |-> TRUE]
    ELSE [status |-> "CONFLICT",
          location |-> (CHOOSE a \in AccountsOf(key) : TRUE).uri, next |-> FALSE]

CANewRegAccounts(key) ==
  IF AccountsOf(key) = {}
    THEN caAccounts \cup {[key |-> key, uri |-> AccountUri(Cardinality(caAccounts) + 1)]}
    ELSE caAccounts

\* An error document: no Location header, no links.
ErrorResponse(status) == [status |-> status, location |-> NoUri, next |-> FALSE]

\* The CA's answer to a POST on an account URI (registration update): the
\* account, the link to new-authz; the Location header may or may not be set.
CAUpdateResponses(loc) ==
  {[status |-> "ACCEPTED", location |-> l, next |-> TRUE] : l \in {NoUri, loc}}

\* ------------------------------------------------------------------ Account

\* Client._regr_from_response(response, uri=uri), called at the end of the
\* patched register: the account URI is the Location header, and the uri
\* argument when the response carries none; a response without the link to
\* new-authz raises.
RegrFromResponse(response, uri) ==
  [raised |-> ~response.next,
   regr |-> [uri |-> IF response.location # NoUri THEN response.location ELSE uri,
             new_authzr_uri |-> NewAuthzUri,
             terms_of_service |-> "tos"]]

\* the condition under which the patched register re-attaches to an account
IsConflictWithLocation(response) ==
  response.status = "CONFLICT" /\ response.location # NoUri

\* the patched register without its uri=loc
RegisterUriArgument_Dropped(loc) == NoUri

\* the uri argument the patched register hands to _regr_from_response
RegisterUriArgument(loc) == loc

\* an except clause that lets the call go on to its return
AccountNotCreated_Swallowed == Returned("create_account")

\* except BaseException: raise SystemError("Account not created: ...")
AccountNotCreated == Raised("create_account", "SystemError", "Account not created")

\* the methods of class Account
AccountMethods == {"create_account"}

\* the names the caller may look up on an Account object
AccountGetters == {"get_regr", "get_client", "get_account_key"}

\* create_account(keyfile): open the file and load the key.  open() is outside
\* the try block; the try block covers read and load_pem_private_key.
CreateAccountCall(keyfile) ==
  /\ pc = "idle"
  /\ ~cr.exists
  /\ hist.creates < MaxCreate
  /\ hist' = [hist EXCEPT !.creates = @ + 1]
  /\ fr' = [NoFrame EXCEPT !.op = "create_account", !.keyfile = keyfile,
                           !.key = IF keyfile \in Keys THEN keyfile ELSE None]
  /\ reqs' = <<>>
  /\ ret' = NoRet
  /\ IF keyfile \in Keys
       THEN /\ pc' = "ca_client"
            /\ result' = [op |-> "create_account", exc |-> "running", msg |-> ""]
       ELSE /\ pc' = "idle"
            /\ result' = CASE keyfile = "missing" ->
                                Raised("create_account", "FileNotFoundError", "open")
                           [] keyfile = "unreadable" ->
                                Raised("create_account", "PermissionError", "open")
                           [] OTHER ->
                                Raised("create_account", "Exception", "Key couldn't be loaded")
  /\ UNCHANGED <<caAccounts, caAuthz, acct, cr>>

\* client.Client(directory_url, account_key): fetches the directory.
CA_Client ==
  /\ pc = "ca_client"
  /\ \E ok \in BOOLEAN :
       /\ reqs' = Append(reqs, Req("GET", "directory", None, IF ok THEN "ok" ELSE "error"))
       /\ IF ok
         THEN /\ acct' = [acct EXCEPT !._acme = fr.key]
              /\ pc' = "ca_register"
              /\ UNCHANGED result
         ELSE /\ pc' = "idle"
              /\ result' = AccountNotCreated
              /\ UNCHANGED acct
  /\ UNCHANGED <<caAccounts, caAuthz, cr, fr, ret, hist>>

\* The patched register: POST new-reg with check_response=False, so every
\* response comes back, whatever its status.
CA_Register ==
  /\ pc = "ca_register"
  /\ \/ \* the request fails in the transport
        /\ reqs' = Append(reqs, Req("POST", "new-reg", fr.key, "error"))
        /\ pc' = "idle"
        /\ result' = AccountNotCreated
        /\ UNCHANGED <<caAccounts, acct, fr>>
     \/ \E response \in {CANewRegResponse(fr.key), ErrorResponse("SERVER_ERROR")}
                          \cup (IF AccountsOf(fr.key) # {}
                                  THEN {ErrorResponse("CONFLICT")} ELSE {}) :
          /\ reqs' = Append(reqs, Req("POST", "new-reg", fr.key,
                                     IF response.location # NoUri
                                       THEN response.status ELSE "error document"))
          /\ caAccounts' = IF response.status = "CREATED"
                             THEN CANewRegAccounts(fr.key) ELSE caAccounts
          /\ IF IsConflictWithLocation(response)
               THEN /\ fr' = [fr EXCEPT !.loc = response.location]
                    /\ pc' = "ca_register_update"
                    /\ UNCHANGED <<acct, result>>
               ELSE LET r == RegrFromResponse(response, RegisterUriArgument(NoUri))
                    IN \E strict \in BOOLEAN :
                       \* a release of the library that does not insist on the
                       \* link builds a registration from any response
                       IF strict /\ r.raised
                         THEN /\ pc' = "idle"
                              /\ result' = AccountNotCreated
                              /\ UNCHANGED <<acct, fr>>
                         ELSE /\ acct' = [acct EXCEPT !._regr = r.regr, !.has_regr = TRUE]
                              /\ pc' = "ca_agree"
                              /\ UNCHANGED <<fr, result>>
  /\ UNCHANGED <<caAuthz, cr, ret, hist>>

\* The patched register after a conflict: POST UpdateRegistration to the
\* Location of the conflict response, then _regr_from_response(response, uri=loc).
CA_RegisterUpdate ==
  /\ pc = "ca_register_update"
  /\ \/ /\ reqs' = Append(reqs, Req("POST", "reg", fr.loc, "error"))
        /\ pc' = "idle"
        /\ result' = AccountNotCreated
        /\ UNCHANGED acct
     \/ \E response \in CAUpdateResponses(fr.loc) :
          LET r == RegrFromResponse(response, RegisterUriArgument(fr.loc))
          IN /\ reqs' = Append(reqs, Req("POST", "reg", fr.loc, response.status))
             /\ IF r.raised
                  THEN /\ pc' = "idle"
                       /\ result' = AccountNotCreated
                       /\ UNCHANGED acct
                  ELSE /\ acct' = [acct EXCEPT !._regr = r.regr, !.has_regr = TRUE]
                       /\ pc' = "ca_agree"
                       /\ UNCHANGED result
  /\ UNCHANGED <<caAccounts, caAuthz, cr, fr, ret, hist>>

\* agree_to_tos(self._regr): POST the agreement to the account URI, which
\* cannot be sent when the registration has no URI; then the return of
\* (self._regr, self._acme, account_key).
CA_AgreeTos ==
  /\ pc = "ca_agree"
  /\ pc' = "idle"
  /\ IF acct._regr.uri = NoUri
       THEN /\ result' = AccountNotCreated
            /\ UNCHANGED <<reqs, ret, hist>>
       ELSE \E ok \in BOOLEAN :
              /\ reqs' = Append(reqs, Req("POST", "reg", acct._regr.uri,
                                         IF ok THEN "ACCEPTED" ELSE "error"))
              /\ IF ok
                   THEN /\ result' = Returned("create_account")
                        /\ ret' = [NoRet EXCEPT !.regr = acct._regr, !.acme = acct._acme,
                                                !.account_key = fr.key]
                        /\ hist' = [hist EXCEPT !.created =
                                      Append(@, [key |-> fr.key, uri |-> acct._regr.uri])]
                   ELSE /\ result' = AccountNotCreated
                        /\ UNCHANGED <<ret, hist>>
  /\ UNCHANGED <<caAccounts, caAuthz, acct, cr, fr>>

\* account.name() for a name the class does not define: the attribute lookup
\* raises AttributeError.  Account defines __init__ and create_account only,
\* and create_account keeps account_key in a local variable.
AccountGetterCall(name) ==
  /\ pc = "idle"
  /\ ~cr.exists
  /\ name \notin AccountMethods
  /\ fr' = [NoFrame EXCEPT !.op = name]
  /\ reqs' = <<>>
  /\ ret' = NoRet
  /\ result' = Raised(name, "AttributeError", "Account object has no attribute")
  /\ UNCHANGED <<caAccounts, caAuthz, acct, cr, pc, hist>>

\* CertRequest(client, acme, regr, account_key), built by the caller from what
\* create_account returned.
NewCertRequest ==
  /\ pc = "idle"
  /\ ~cr.exists
  /\ result = Returned("create_account")
  /\ cr' = [exists |-> TRUE, _acme |-> ret.acme, _regr |-> ret.regr,
            _challenges |-> <<>>, _account_key |-> ret.account_key]
  /\ UNCHANGED <<caAccounts, caAuthz, acct, pc, fr, reqs, result, ret, hist>>

\* ------------------------------------------------------------------ the CA: authorizations

\* The challenges and combinations the CA offers in an authorization.  A
\* combination is a tuple of indices into challenges, counted from 0.
\*   A: dns-01 twice and http-01, each sufficient alone
\*   B: tls-sni-01 alone, or http-01 together with dns-01
Shapes == {"A", "B"}

ShapeClasses(shape) ==
  IF shape = "A" THEN <<"DNS01", "HTTP01", "DNS01">>
                 ELSE <<"TLSSNI01", "HTTP01", "DNS01">>

ShapeCombinations(shape) ==
  IF shape = "A" THEN << <<0>>, <<1>>, <<2>> >>
                 ELSE << <<0>>, <<1, 2>> >>

\* The token of a challenge is drawn afresh by the CA for every challenge of
\* every authorization: the authorization's id and the challenge's index.
CAChallenges(id, authz) ==
  [k \in 1..Len(ShapeClasses(authz.shape)) |->
     [chall |-> ShapeClasses(authz.shape)[k], token |-> <<id, k>>]]

\* The body of authorization id as the CA serves it.  Until the CA has made
\* the challenges visible the body lists none.
BodyOf(id, authz) ==
  [identifier |-> authz.domain,
   status |-> authz.status,
   challenges |-> IF authz.visible THEN CAChallenges(id, authz) ELSE <<>>,
   combinations |-> IF authz.visible THEN ShapeCombinations(authz.shape) ELSE <<>>]

AuthzBody(id) == BodyOf(id, caAuthz[id])

AuthzIds == 1..Len(caAuthz)

\* The client sees the CA only through its requests, so a change the CA makes
\* between two calls is a change it makes before the first request of the
\* next call: the CA's own steps are taken while a call runs.
CallRunning == pc # "idle"

\* The CA makes the challenges of an authorization visible.
CAPopulate ==
  \E id \in AuthzIds :
    /\ CallRunning
    /\ ~caAuthz[id].visible
    /\ caAuthz' = [caAuthz EXCEPT ![id].visible = TRUE]
    /\ UNCHANGED <<caAccounts, acct, cr, pc, fr, reqs, result, ret, hist>>

\* The CA finishes the validation of an authorization one of whose challenges
\* was answered: it becomes valid or invalid, and stays so.
CAValidate ==
  \E id \in AuthzIds, status \in {"valid", "invalid"} :
    /\ CallRunning
    /\ caAuthz[id].status = "pending"
    /\ caAuthz[id].answered
    /\ caAuthz' = [caAuthz EXCEPT ![id].status = status]
    /\ UNCHANGED <<caAccounts, acct, cr, pc, fr, reqs, result, ret, hist>>

\* ------------------------------------------------------------------ CertRequest.request_tokens

\* a table that also takes the spelling with a hyphen
DefinedTypes_WithAlias == {"dns01", "http01", "tlssni01", "dns-01"}

\* the keys of the table of request_tokens
DefinedTypes == {"dns01", "http01", "tlssni01"}

\* the table of request_tokens: ctype -> challenge class
ChallengeClassTable ==
  [t \in DefinedTypes |->
     CASE t = "http01" -> "HTTP01"
       [] t = "tlssni01" -> "TLSSNI01"
       [] OTHER -> "DNS01"]

\* the lookup raises KeyError, turned into ValueError, for any other ctype
IsDefinedType(ctype) == ctype \in DOMAIN ChallengeClassTable

ChallengeClass(ctype) == ChallengeClassTable[ctype]

NoChallb == [chall |-> None, token |-> <<>>]

\* the body of the loop over authzr.body.combinations, from combination k on:
\* a combination of length one whose challenge is of the class replaces challb
RECURSIVE SelectFrom(_, _, _, _)
SelectFrom(body, class, k, challb) ==
  IF k > Len(body.combinations) THEN challb
  ELSE LET c == body.combinations[k]
       IN SelectFrom(body, class, k + 1,
            IF Len(c) = 1 /\ body.challenges[c[1] + 1].chall = class
              THEN body.challenges[c[1] + 1]
              ELSE challb)

\* the body of the loop without its test of the combination's length
RECURSIVE SelectFrom_AnyLength(_, _, _, _)
SelectFrom_AnyLength(body, class, k, challb) ==
  IF k > Len(body.combinations) THEN challb
  ELSE LET c == body.combinations[k]
       IN SelectFrom_AnyLength(body, class, k + 1,
            IF body.challenges[c[1] + 1].chall = class
              THEN body.challenges[c[1] + 1]
              ELSE challb)

\* challb left over from the previous turn of the loop over the domains
InitialChallb_Stale ==
  IF fr.tokens = <<>> THEN NoChallb ELSE cr._challenges[Len(cr._challenges)].challb

\* challb = None, before the loop over the combinations
InitialChallb == NoChallb

\* the body of the loop with a break after the first match
RECURSIVE SelectFrom_FirstMatch(_, _, _, _)
SelectFrom_FirstMatch(body, class, k, challb) ==
  IF k > Len(body.combinations) THEN challb
  ELSE LET c == body.combinations[k]
       IN IF Len(c) = 1 /\ body.challenges[c[1] + 1].chall = class
            THEN body.challenges[c[1] + 1]
            ELSE SelectFrom_FirstMatch(body, class, k + 1, challb)

\* the loop over the combinations, left at the first match
SelectLoop_FirstMatch(body, class, challb) == SelectFrom_FirstMatch(body, class, 1, challb)

\* the loop over the combinations without its test of the length
SelectLoop_AnyLength(body, class, challb) == SelectFrom_AnyLength(body, class, 1, challb)

\* the loop over authzr.body.combinations
SelectLoop(body, class, challb) == SelectFrom(body, class, 1, challb)

\* challb after the loop (None when nothing matched)
SelectChallenge(body, class) == SelectLoop(body, class, InitialChallb)

\* challb.response_and_validation(account_key): the key authorization is the
\* token joined with the thumbprint of the account key; the response carries
\* it, the validation is derived from it as the challenge class prescribes
\* (DNS01: the digest of it, HTTP01: the text itself, TLSSNI01: a certificate
\* for the name derived from it).
KeyAuthorization(challb, account_key) == <<challb.token, account_key>>

Response(challb, account_key) ==
  [chall |-> challb.chall, key_authorization |-> KeyAuthorization(challb, account_key)]

Validation(challb, account_key) ==
  CASE challb.chall = "DNS01" -> <<"b64-sha256", KeyAuthorization(challb, account_key)>>
    [] challb.chall = "HTTP01" -> <<"text", KeyAuthorization(challb, account_key)>>
    [] OTHER -> <<"z-domain-cert", KeyAuthorization(challb, account_key)>>

\* the dict appended to self._challenges
ChallengeContext(authzr, challb, account_key) ==
  [authzr |-> authzr, challb |-> challb,
   response |-> Response(challb, account_key),
   validation |-> Validation(challb, account_key)]

\* the dict appended to tokens
TokenEntry(domain, ctx) == [domain |-> domain, validation |-> ctx.validation]

\* tokens with the entry put in front
AppendToken_InFront(tokens, domain, ctx) == <<TokenEntry(domain, ctx)>> \o tokens

\* tokens.append({...})
AppendToken(tokens, domain, ctx) == Append(tokens, TokenEntry(domain, ctx))

TypeNotDefined == Raised("request_tokens", "ValueError", "Type is not defined")
ChallengeRequestingFailed ==
  Raised("request_tokens", "SystemError", "Challenge requesting failed")
\* self._challenges set to the one new context
AppendContext_Assign(challenges, ctx) == <<ctx>>

\* self._challenges.append(ChallengeContext(...))
AppendContext(challenges, ctx) == Append(challenges, ctx)

\* bookkeeping: a request_tokens call has failed after it had stored contexts
RequestFailed(h) ==
  [h EXCEPT !.kept = @ \/ Len(cr._challenges) > Len(fr.pre)]

TypeNotInAuthzr == Raised("request_tokens", "LookupError", "ctype not in authzr")

Running(op) == [op |-> op, exc |-> "running", msg |-> ""]

\* request_tokens(domains, ctype) up to the loop: the table lookup.
RequestTokensCall(domains, ctype) ==
  /\ pc = "idle"
  /\ cr.exists
  /\ hist.rcalls < MaxRequestCalls
  /\ Len(cr._challenges) + Len(domains) <= MaxContexts
  /\ hist.rcalls + hist.acalls < MaxCalls
  /\ hist' = [hist EXCEPT !.rcalls = @ + 1]
  /\ fr' = [NoFrame EXCEPT !.op = "request_tokens", !.domains = domains,
                           !.ctype = ctype, !.i = 1, !.pre = cr._challenges]
  /\ reqs' = <<>>
  /\ ret' = NoRet
  /\ IF ~IsDefinedType(ctype)
       THEN pc' = "idle" /\ result' = TypeNotDefined
       ELSE IF domains = <<>>
         THEN pc' = "idle" /\ result' = Returned("request_tokens")
         ELSE pc' = "rt_request" /\ result' = Running("request_tokens")
  /\ UNCHANGED <<caAccounts, caAuthz, acct, cr>>

\* request_domain_challenges(domain): POST new-authz.  The CA creates an
\* authorization for the domain, or hands out again a pending one it holds
\* for the domain; or the request fails.
RT_Request ==
  /\ pc = "rt_request"
  /\ \/ /\ reqs' = Append(reqs, Req("POST", "new-authz", fr.domains[fr.i], "error"))
        /\ pc' = "idle"
        /\ result' = ChallengeRequestingFailed
        /\ hist' = RequestFailed(hist)
        /\ UNCHANGED <<caAuthz, fr>>
     \/ /\ Len(caAuthz) < MaxAuthz
        /\ reqs' = Append(reqs, Req("POST", "new-authz", fr.domains[fr.i], "ok"))
        /\ \E shape \in Shapes, visible \in BOOLEAN :
             LET authz == [domain |-> fr.domains[fr.i], shape |-> shape,
                           visible |-> visible, status |-> "pending",
                           answered |-> FALSE]
                 id == Len(caAuthz) + 1
             IN /\ caAuthz' = Append(caAuthz, authz)
                /\ fr' = [fr EXCEPT !.authzr = <<[id |-> id, body |-> BodyOf(id, authz)]>>]
        /\ pc' = "rt_poll"
        /\ UNCHANGED <<result, hist>>
     \/ /\ reqs' = Append(reqs, Req("POST", "new-authz", fr.domains[fr.i], "ok"))
        /\ \E id \in AuthzIds :
             /\ caAuthz[id].domain = fr.domains[fr.i]
             /\ caAuthz[id].status = "pending"
             /\ fr' = [fr EXCEPT !.authzr = <<[id |-> id, body |-> AuthzBody(id)]>>]
        /\ pc' = "rt_poll"
        /\ UNCHANGED <<caAuthz, result, hist>>
  /\ UNCHANGED <<caAccounts, acct, cr, ret>>

\* self._acme.poll(authzr): one GET of the authorization; then the selection
\* of the challenge, the computation of response and validation and the two
\* appends, and the next turn of the loop or the return.
RT_Poll ==
  /\ pc = "rt_poll"
  /\ \/ /\ reqs' = Append(reqs, Req("GET", "authz", fr.authzr[1].id, "error"))
        /\ pc' = "idle"
        /\ result' = ChallengeRequestingFailed
        /\ hist' = RequestFailed(hist)
        /\ UNCHANGED <<cr, fr, ret>>
     \/ LET id == fr.authzr[1].id
            authzr == [id |-> id, body |-> AuthzBody(id)]
            challb == SelectChallenge(authzr.body, ChallengeClass(fr.ctype))
            ctx == ChallengeContext(authzr, challb, cr._account_key)
            tokens == AppendToken(fr.tokens, fr.domains[fr.i], ctx)
        IN /\ reqs' = Append(reqs, Req("GET", "authz", id, "ok"))
           /\ IF challb = NoChallb
                THEN /\ pc' = "idle"
                     /\ result' = TypeNotInAuthzr
                     /\ fr' = [fr EXCEPT !.authzr = <<authzr>>]
                     /\ hist' = RequestFailed(hist)
                     /\ UNCHANGED <<cr, ret>>
                ELSE /\ cr' = [cr EXCEPT !._challenges = AppendContext(@, ctx)]
                     /\ hist' = [hist EXCEPT !.answered = Append(@, 0)]
                     /\ fr' = [fr EXCEPT !.authzr = <<authzr>>, !.tokens = tokens,
                                          !.i = @ + 1]
                     /\ IF fr.i = Len(fr.domains)
                          THEN /\ pc' = "idle"
                               /\ result' = Returned("request_tokens")
                               /\ ret' = [NoRet EXCEPT !.tokens = tokens]
                          ELSE /\ pc' = "rt_request"
                               /\ UNCHANGED <<result, ret>>
  /\ UNCHANGED <<caAccounts, caAuthz, acct>>

\* ------------------------------------------------------------------ CertRequest.answer_challenges

ChallengeAnsweringFailed ==
  Raised("answer_challenges", "SystemError", "Challenge answering failed")
RequestingCertificateFailed ==
  Raised("answer_challenges", "SystemError", "Requesting certificate failed")
\* the chain failure raised as the error of the issuance
GettingChainFailed_AsSystemError ==
  Raised("answer_challenges", "SystemError",
         "Extracting certificate and getting chain failed")

GettingChainFailed ==
  Raised("answer_challenges", "ValueError",
         "Extracting certificate and getting chain failed")

\* poll_and_request_issuance starts: every authzr waits for its first poll,
\* none was polled, updated maps every authzr to itself.
PollFrame(f, authzrs) ==
  [f EXCEPT !.authzrs = authzrs,
            !.waiting = authzrs,
            !.attempts = [a \in Range(authzrs) |-> 0],
            !.updated = [a \in Range(authzrs) |-> a]]

\* the for loop over self._challenges has taken its last element
AnswerLoopDone_AfterFirst(i) == TRUE

AnswerLoopDone(i) == i = Len(cr._challenges)

\* authzrs that takes the authzr of the first context only
AppendAuthzr_FirstOnly(authzrs, ctx) ==
  IF authzrs = <<>> THEN <<ctx.authzr>> ELSE authzrs

\* authzrs.append(authzr['authzr'])
AppendAuthzr(authzrs, ctx) == Append(authzrs, ctx.authzr)

\* answer_challenges(csr) up to the first turn of the loop over self._challenges.
AnswerChallengesCall(csr) ==
  /\ pc = "idle"
  /\ cr.exists
  /\ hist.acalls < MaxAnswerCalls
  /\ hist.rcalls + hist.acalls < MaxCalls
  /\ hist' = [hist EXCEPT !.acalls = @ + 1]
  /\ fr' = [NoFrame EXCEPT !.op = "answer_challenges", !.csr = csr, !.i = 1,
                           !.pre = cr._challenges]
  /\ reqs' = <<>>
  /\ ret' = NoRet
  /\ result' = Running("answer_challenges")
  /\ pc' = IF cr._challenges = <<>> THEN "ac_issue" ELSE "ac_answer"
  /\ UNCHANGED <<caAccounts, caAuthz, acct, cr>>

\* an except clause that logs the failure and goes on with the loop
AnswerFailed_Continue(f, authzrs) ==
  IF AnswerLoopDone(f.i)
    THEN [pc |-> "ac_poll", result |-> Running("answer_challenges"),
          fr |-> PollFrame([f EXCEPT !.i = @ + 1], authzrs)]
    ELSE [pc |-> "ac_answer", result |-> Running("answer_challenges"),
          fr |-> [f EXCEPT !.i = @ + 1, !.authzrs = authzrs]]

\* except BaseException: raise SystemError("Challenge answering failed: ...")
\* leaves the loop and the call
AnswerFailed(f, authzrs) ==
  [pc |-> "idle", result |-> ChallengeAnsweringFailed, fr |-> f]

\* One turn of the loop: answer_challenge(challb, response) for the i-th
\* stored context, a POST to the challenge; the CA notes the answer of a
\* pending authorization.  A failure ends the call.
AC_Answer ==
  /\ pc = "ac_answer"
  /\ LET ctx == cr._challenges[fr.i]
         authzrs == AppendAuthzr(fr.authzrs, ctx)
     IN /\ hist' = [hist EXCEPT !.answered[fr.i] = @ + 1]
        /\ \/ /\ reqs' = Append(reqs, Req("POST", "challenge", fr.i, "error"))
              /\ pc' = AnswerFailed(fr, authzrs).pc
              /\ result' = AnswerFailed(fr, authzrs).result
              /\ fr' = AnswerFailed(fr, authzrs).fr
              /\ UNCHANGED caAuthz
           \/ /\ reqs' = Append(reqs, Req("POST", "challenge", fr.i, "ok"))
              /\ caAuthz' = IF caAuthz[ctx.authzr.id].status = "pending"
                              THEN [caAuthz EXCEPT ![ctx.authzr.id].answered = TRUE]
                              ELSE caAuthz
              /\ IF AnswerLoopDone(fr.i)
                   THEN /\ fr' = PollFrame([fr EXCEPT !.i = @ + 1], authzrs)
                        /\ pc' = "ac_poll"
                   ELSE /\ fr' = [fr EXCEPT !.i = @ + 1, !.authzrs = authzrs]
                        /\ pc' = "ac_answer"
              /\ UNCHANGED result
  /\ UNCHANGED <<caAccounts, acct, cr, ret>>

\* One turn of the loop of poll_and_request_issuance: the authzr at the head
\* of the queue is polled; if its status is neither valid nor invalid it goes
\* back to the queue, unless it has been polled MaxAttempts times.
AC_Poll ==
  /\ pc = "ac_poll"
  /\ LET authzr == Head(fr.waiting)
         id == authzr.id
         updated_authzr == [id |-> id, body |-> AuthzBody(id)]
         attempts == fr.attempts[authzr] + 1
         final == updated_authzr.body.status \in {"valid", "invalid"}
         waiting == IF ~final /\ attempts < MaxAttempts
                      THEN Append(Tail(fr.waiting), authzr)
                      ELSE Tail(fr.waiting)
     IN \/ /\ reqs' = Append(reqs, Req("GET", "authz", id, "error"))
           /\ pc' = "idle"
           /\ result' = RequestingCertificateFailed
           /\ UNCHANGED fr
        \/ /\ reqs' = Append(reqs, Req("GET", "authz", id, "ok"))
           /\ fr' = [fr EXCEPT !.waiting = waiting,
                               !.attempts[authzr] = attempts,
                               !.updated[authzr] = updated_authzr,
                               !.exhausted = IF ~final /\ attempts >= MaxAttempts
                                               THEN @ \cup {authzr} ELSE @]
           /\ pc' = IF waiting = <<>> THEN "ac_issue" ELSE "ac_poll"
           /\ UNCHANGED result
  /\ UNCHANGED <<caAccounts, caAuthz, acct, cr, ret, hist>>

\* the condition under which poll_and_request_issuance raises PollError
PollError(f) ==
  \/ f.exhausted # {}
  \/ \E a \in DOMAIN f.updated : f.updated[a].body.status = "invalid"

\* The CA issues for a CSR when it holds a valid authorization for every
\* domain the CSR names.
CAWouldIssue(csr) ==
  \A d \in csr : \E id \in AuthzIds :
     caAuthz[id].domain = d /\ caAuthz[id].status = "valid"

\* The end of poll_and_request_issuance: PollError, or request_issuance, the
\* POST of the CSR to new-cert.  The certificate resource carries the
\* certificate and the link to the issuer's certificate, if the CA gives one.
AC_Issue ==
  /\ pc = "ac_issue"
  /\ IF PollError(fr)
       THEN /\ pc' = "idle"
            /\ result' = RequestingCertificateFailed
            /\ UNCHANGED <<fr, reqs>>
       ELSE \/ /\ reqs' = Append(reqs, Req("POST", "new-cert", fr.csr, "error"))
               /\ pc' = "idle"
               /\ result' = RequestingCertificateFailed
               /\ UNCHANGED fr
            \/ /\ reqs' = Append(reqs, Req("POST", "new-cert", fr.csr, "ok"))
               /\ CAWouldIssue(fr.csr)
               /\ \E n \in 0..MaxChain :
                    fr' = [fr EXCEPT !.crt = <<[body |-> <<"cert", fr.csr>>,
                                                chain_length |-> n]>>]
               /\ pc' = "ac_chain"
               /\ UNCHANGED result
  /\ UNCHANGED <<caAccounts, caAuthz, acct, cr, ret, hist>>

\* fetch_chain(crt): follows the links from the certificate, one GET per
\* certificate of the chain, none when the certificate carries no link.
FetchChain(crt) == [k \in 1..crt.chain_length |-> <<"issuer", k>>]

\* what answer_challenges returns
CertAndChain(crt) == [cert |-> <<crt.body>>, chain |-> FetchChain(crt)]

\* cert = [crt.body]; chain = fetch_chain(crt); return (cert, chain)
AC_FetchChain ==
  /\ pc = "ac_chain"
  /\ pc' = "idle"
  /\ LET crt == fr.crt[1]
     IN \/ /\ crt.chain_length > 0
           /\ reqs' = Append(reqs, Req("GET", "chain", 1, "error"))
           /\ result' = GettingChainFailed
           /\ UNCHANGED ret
        \/ /\ reqs' = reqs \o [k \in 1..crt.chain_length |-> Req("GET", "chain", k, "ok")]
           /\ result' = Returned("answer_challenges")
           /\ ret' = [NoRet EXCEPT !.cert = CertAndChain(crt).cert,
                                   !.chain = CertAndChain(crt).chain]
  /\ UNCHANGED <<caAccounts, caAuthz, acct, cr, fr, hist>>

\* ------------------------------------------------------------------ specifications

NoCertRequest == [exists |-> FALSE, _acme |-> None, _regr |-> NoRegr,
                  _challenges |-> <<>>, _account_key |-> None]

NoHist == [creates |-> 0, created |-> <<>>, rcalls |-> 0, acalls |-> 0,
           answered |-> <<>>, kept |-> FALSE]

\* Account(logging, directory_url) was constructed; the CA may already hold
\* an account for the key k1.
InitAccount ==
  /\ caAccounts \in {{}, {[key |-> "k1", uri |-> AccountUri(1)]}}
  /\ caAuthz = <<>>
  /\ acct = [_acme |-> None, _regr |-> NoRegr, has_regr |-> FALSE]
  /\ cr = NoCertRequest
  /\ pc = "idle"
  /\ fr = NoFrame
  /\ reqs = <<>>
  /\ result = [op |-> None, exc |-> "none", msg |-> ""]
  /\ ret = NoRet
  /\ hist = NoHist

NextAccount ==
  \/ \E keyfile \in KeyFiles : CreateAccountCall(keyfile)
  \/ CA_Client
  \/ CA_Register
  \/ CA_RegisterUpdate
  \/ CA_AgreeTos
  \/ \E name \in AccountGetters : AccountGetterCall(name)
  \/ NewCertRequest

\* the Account object and its calls
SpecAccount == InitAccount /\ [][NextAccount]_vars

\* The registration create_account returns for the key k1 from a CA that
\* holds the account reg/1 for it.
SessionRegr == [uri |-> AccountUri(1), new_authzr_uri |-> NewAuthzUri,
                terms_of_service |-> "tos"]

\* create_account has returned for the key k1 and the caller has constructed
\* CertRequest from what it returned: the session starts with no challenges.
Init ==
  /\ caAccounts = {[key |-> "k1", uri |-> AccountUri(1)]}
  /\ caAuthz = <<>>
  /\ acct = [_acme |-> "k1", _regr |-> SessionRegr, has_regr |-> TRUE]
  /\ cr = [exists |-> TRUE, _acme |-> "k1", _regr |-> SessionRegr,
           _challenges |-> <<>>, _account_key |-> "k1"]
  /\ pc = "idle"
  /\ fr = NoFrame
  /\ reqs = <<>>
  /\ result = [op |-> None, exc |-> "none", msg |-> ""]
  /\ ret = NoRet
  /\ hist = NoHist

Next ==
  \/ \E domains \in DomainLists, ctype \in CTypes : RequestTokensCall(domains, ctype)
  \/ RT_Request
  \/ RT_Poll
  \/ \E csr \in CSRs : AnswerChallengesCall(csr)
  \/ AC_Answer
  \/ AC_Poll
  \/ AC_Issue
  \/ AC_FetchChain
  \/ CAPopulate
  \/ CAValidate

\* one CertRequest session and the CA
Spec == Init /\ [][Next]_vars

\* ------------------------------------------------------------------ properties

\* the call named op has ended
Ended(op) == pc = "idle" /\ fr.op = op

\* some request of the call went to the resource `to`
Sent(to) == \E k \in 1..Len(reqs) : reqs[k].to = to

\* the contexts the running (or last) request_tokens call has appended
Appended == SubSeq(cr._challenges, Len(fr.pre) + 1, Len(cr._challenges))

\* the domains for which the session holds a context
NegotiatedDomains == {cr._challenges[k].authzr.body.identifier : k \in 1..Len(cr._challenges)}

\* C1 (SpecAccount): registrations returned by create_account for one key carry
\* one account URI, the CA holds exactly that one account for the key, and a
\* call whose new-registration request was answered with a conflict and a
\* Location, and none of whose requests failed, returns the registration
\* with the URI of that Location.
C1_RegistrationIdempotent ==
  /\ \A i, j \in 1..Len(hist.created) :
       hist.created[i].key = hist.created[j].key
         => hist.created[i].uri = hist.created[j].uri
  /\ \A i \in 1..Len(hist.created) :
       AccountsOf(hist.created[i].key) = {hist.created[i]}
  /\ ( /\ Ended("create_account")
       /\ \E k \in 1..Len(reqs) : reqs[k].to = "new-reg" /\ reqs[k].out = "CONFLICT"
       /\ \A k \in 1..Len(reqs) : reqs[k].out # "error" )
     => /\ result = Returned("create_account")
        /\ ret.regr.uri = fr.loc
        /\ [key |-> fr.key, uri |-> ret.regr.uri] \in caAccounts

\* two calls with the key k2 have returned: the first created the account,
\* the second was answered with a conflict
C1_Witness ==
  /\ Len(hist.created) = 2
  /\ hist.created[1].key = "k2"
  /\ hist.created[2].key = "k2"
  /\ \E k \in 1..Len(reqs) : reqs[k].to = "new-reg" /\ reqs[k].out = "CONFLICT"

\* C2: request_tokens with a ctype outside dns01, http01, tlssni01 ends with
\* ValueError, has sent no request and leaves self._challenges as it was.
C2_InvalidTypeNoSideEffect ==
  (Ended("request_tokens") /\ fr.ctype \notin {"dns01", "http01", "tlssni01"})
    => /\ result = TypeNotDefined
       /\ reqs = <<>>
       /\ cr._challenges = fr.pre
       /\ ret = NoRet

\* a call with an undefined type, a domain list and a session that holds a context
C2_Witness ==
  /\ Ended("request_tokens")
  /\ fr.ctype = "dns-01"
  /\ Len(fr.domains) = 2
  /\ cr._challenges # <<>>

\* C3: answer_challenges with a CSR whose domain set differs from the set of
\* negotiated domains does not return, and when it raises the issuance error
\* no answer has been submitted.
C3_MismatchFailsBeforeAnswers ==
  (Ended("answer_challenges") /\ fr.csr # NegotiatedDomains)
    => /\ result # Returned("answer_challenges")
       /\ result = RequestingCertificateFailed => ~Sent("challenge")

\* C4: answer_challenges returns only if the authorization of every stored
\* context is valid at the CA; a call that has seen an authorization invalid
\* ends with the issuance error, returns nothing and has not submitted the CSR.
C4_AllValidOrIssuanceError ==
  /\ (pc = "idle" /\ result = Returned("answer_challenges"))
       => \A k \in 1..Len(cr._challenges) :
            caAuthz[cr._challenges[k].authzr.id].status = "valid"
  /\ ( /\ Ended("answer_challenges")
       /\ \E a \in DOMAIN fr.updated : fr.updated[a].body.status = "invalid" )
     => /\ result = RequestingCertificateFailed
        /\ ret = NoRet
        /\ ~Sent("new-cert")

\* a call has seen one authorization valid and another invalid
C4_Witness ==
  /\ Ended("answer_challenges")
  /\ \E a \in DOMAIN fr.updated : fr.updated[a].body.status = "invalid"
  /\ \E a \in DOMAIN fr.updated : fr.updated[a].body.status = "valid"
  /\ fr.waiting = <<>>

\* C5: the answer of a stored context is submitted at most once in a session.
C5_AnsweredAtMostOnce ==
  \A k \in 1..Len(hist.answered) : hist.answered[k] <= 1

\* the combinations of length one whose challenge is of the class
SingleOfClass(body, class) ==
  {k \in 1..Len(body.combinations) :
     /\ Len(body.combinations[k]) = 1
     /\ body.challenges[body.combinations[k][1] + 1].chall = class}

ClassOf(ctype) ==
  CASE ctype = "dns01" -> "DNS01"
    [] ctype = "http01" -> "HTTP01"
    [] ctype = "tlssni01" -> "TLSSNI01"
    [] OTHER -> None

\* the call ended right after a poll that was answered
EndedAfterPoll ==
  /\ Ended("request_tokens")
  /\ reqs # <<>>
  /\ reqs[Len(reqs)].to = "authz"
  /\ reqs[Len(reqs)].out = "ok"

\* C6: a request_tokens call ends with LookupError exactly when the
\* authorization it polled last has no combination of length one of the
\* requested class; it then returns nothing and has stored contexts for the
\* domains before that one only.  Every context a call stores holds a
\* challenge of the requested class that is a combination of length one of
\* its authorization.
C6_TypeUnavailable ==
  /\ EndedAfterPoll =>
       ( result = TypeNotInAuthzr
           <=> SingleOfClass(fr.authzr[1].body, ClassOf(fr.ctype)) = {} )
  /\ (pc = "idle" /\ result = TypeNotInAuthzr) =>
       /\ EndedAfterPoll
       /\ ret = NoRet
       /\ Len(Appended) = fr.i - 1
       /\ fr.pre = SubSeq(cr._challenges, 1, Len(fr.pre))
  /\ fr.op = "request_tokens" =>
       \A k \in 1..Len(Appended) :
         /\ Appended[k].challb.chall = ClassOf(fr.ctype)
         /\ \E c \in SingleOfClass(Appended[k].authzr.body, ClassOf(fr.ctype)) :
              Appended[k].challb =
                Appended[k].authzr.body.challenges[
                  Appended[k].authzr.body.combinations[c][1] + 1]

\* a call failed at its second domain, whose authorization lists challenges,
\* among them one of the requested class in a longer combination
C6_Witness ==
  /\ pc = "idle"
  /\ result = TypeNotInAuthzr
  /\ fr.i = 2
  /\ \E k \in 1..Len(fr.authzr[1].body.challenges) :
       fr.authzr[1].body.challenges[k].chall = ClassOf(fr.ctype)

\* the validation value of a challenge for a key, by challenge class
ValueFor(challb, key) ==
  <<CASE challb.chall = "DNS01" -> "b64-sha256"
      [] challb.chall = "HTTP01" -> "text"
      [] OTHER -> "z-domain-cert",
    <<challb.token, key>>>>

\* C7: a request_tokens call that returns, returns one entry per input domain
\* in input order; the i-th entry carries the i-th domain and the validation
\* value of the challenge selected in the authorization the CA gave for that
\* domain, which is the i-th context the call stored.
C7_OneEntryPerDomainInOrder ==
  (pc = "idle" /\ result = Returned("request_tokens")) =>
    /\ Len(ret.tokens) = Len(fr.domains)
    /\ Len(Appended) = Len(fr.domains)
    /\ \A k \in 1..Len(fr.domains) :
         /\ ret.tokens[k].domain = fr.domains[k]
         /\ Appended[k].authzr.body.identifier = fr.domains[k]
         /\ caAuthz[Appended[k].authzr.id].domain = fr.domains[k]
         /\ \E n \in 1..Len(Appended[k].authzr.body.challenges) :
              Appended[k].challb = Appended[k].authzr.body.challenges[n]
         /\ ret.tokens[k].validation = ValueFor(Appended[k].challb, cr._account_key)

\* a call for two different domains has returned
C7_Witness ==
  /\ pc = "idle"
  /\ result = Returned("request_tokens")
  /\ Len(fr.domains) = 2
  /\ fr.domains[1] # fr.domains[2]

\* C8 as stated: no two entries of a returned result carry the same value.
C8_NoTwoEntriesEqual ==
  (pc = "idle" /\ result = Returned("request_tokens")) =>
    \A i, j \in 1..Len(ret.tokens) :
      i # j => ret.tokens[i].validation # ret.tokens[j].validation

\* C8 as amended: entries of a returned result that carry different domains
\* carry different validation values, and no value is empty.
C8_DifferentDomainsDifferentValues ==
  (pc = "idle" /\ result = Returned("request_tokens")) =>
    /\ \A i, j \in 1..Len(ret.tokens) :
         ret.tokens[i].domain # ret.tokens[j].domain
           => ret.tokens[i].validation # ret.tokens[j].validation
    /\ \A i \in 1..Len(ret.tokens) :
         /\ ret.tokens[i].validation # <<>>
         /\ ret.tokens[i].validation[2][1] # <<>>

\* a call for two different domains has returned two entries
C8_Witness ==
  /\ pc = "idle"
  /\ result = Returned("request_tokens")
  /\ Len(ret.tokens) = 2
  /\ ret.tokens[1].domain # ret.tokens[2].domain

\* C9: the session holds one context per negotiated domain.
C9_OneContextPerDomain ==
  \A i, j \in 1..Len(cr._challenges) :
    cr._challenges[i].authzr.body.identifier = cr._challenges[j].authzr.body.identifier
      => i = j

\* C10: whenever answer_challenges returns, the certificate sequence and the
\* chain sequence are both non-empty.
C10_BothNonEmpty ==
  (pc = "idle" /\ result = Returned("answer_challenges")) =>
    ret.cert # <<>> /\ ret.chain # <<>>

\* a request of the call failed in the transport, or was answered with an
\* error document (an error status, or a conflict without a Location)
RegistrationFailure(k) ==
  /\ k \in 1..Len(reqs)
  /\ reqs[k].out \in {"error", "error document"}

\* C12 (SpecAccount): a create_account call one of whose requests failed in the
\* transport or was answered with an error document ends with SystemError
\* "Account not created", returns nothing, has sent nothing after the failed
\* request, and no call sends the new-registration request more than once.
C12_FailureRaisesRegistrationError ==
  /\ (Ended("create_account") /\ \E k \in 1..Len(reqs) : RegistrationFailure(k))
       => /\ result = Raised("create_account", "SystemError", "Account not created")
          /\ ret = NoRet
          /\ RegistrationFailure(Len(reqs))
          /\ \A k \in 1..(Len(reqs) - 1) : ~RegistrationFailure(k)
  /\ fr.op = "create_account"
       => Cardinality({k \in 1..Len(reqs) : reqs[k].to = "new-reg"}) <= 1

\* a call whose new-registration request was answered with an error document
\* has ended, for a key whose account exists at the CA
C12_Witness ==
  /\ Ended("create_account")
  /\ reqs # <<>>
  /\ reqs[Len(reqs)].to = "new-reg"
  /\ reqs[Len(reqs)].out = "error document"
  /\ AccountsOf(fr.key) # {}

\* C13 (SpecAccount): a create_account call for a key file that is missing,
\* unreadable or not a private key ends with one and the same error, the
\* key-load error, and has sent no request.
C13_SameKeyLoadError ==
  (Ended("create_account") /\ fr.keyfile \in {"missing", "unreadable", "garbage"})
    => /\ result = Raised("create_account", "Exception", "Key couldn't be loaded")
       /\ reqs = <<>>

\* C14 (SpecAccount): on an account object on which create_account has
\* succeeded, get_regr(), get_client() and get_account_key() return the
\* registration, the client and the key of the account.
C14_GettersExposeAccount ==
  (pc = "idle" /\ fr.op \in AccountGetters /\ hist.created # <<>>)
    => /\ result = Returned(fr.op)
       /\ fr.op = "get_regr" => ret.regr = acct._regr
       /\ fr.op = "get_client" => ret.acme = acct._acme
       /\ fr.op = "get_account_key"
            => ret.account_key = hist.created[Len(hist.created)].key

\* the requests of the call that poll an authorization or submit the CSR
PollOrIssuance(k) == reqs[k].to \in {"authz", "new-cert"}

\* C15: within one answer_challenges call no poll of an authorization and no
\* CSR submission precedes an answer submission, and when the first poll or
\* the CSR submission is made the answer of every stored context has been
\* submitted.
C15_AnswersBeforePolls ==
  fr.op = "answer_challenges" =>
    /\ \A i, j \in 1..Len(reqs) :
         (i < j /\ reqs[j].to = "challenge") => ~PollOrIssuance(i)
    /\ (\E k \in 1..Len(reqs) : PollOrIssuance(k))
         => \A c \in 1..Len(cr._challenges) :
              \E k \in 1..Len(reqs) :
                /\ reqs[k] = Req("POST", "challenge", c, "ok")
                /\ \A i \in 1..k : ~PollOrIssuance(i)

\* a call on a session with two contexts has polled and submitted the CSR
C15_Witness ==
  /\ fr.op = "answer_challenges"
  /\ Len(cr._challenges) = 2
  /\ Sent("authz")
  /\ Sent("new-cert")

\* C17: an answer_challenges call one of whose answer submissions failed has
\* ended with SystemError "Challenge answering failed"; the failed submission
\* is the last request of the call, so no later answer, no poll and no CSR
\* has been sent, and nothing is returned.
C17_FirstFailureAborts ==
  \A k \in 1..Len(reqs) :
    (fr.op = "answer_challenges" /\ reqs[k].to = "challenge" /\ reqs[k].out = "error")
      => /\ pc = "idle"
         /\ result = Raised("answer_challenges", "SystemError", "Challenge answering failed")
         /\ k = Len(reqs)
         /\ \A i \in 1..Len(reqs) : reqs[i].to = "challenge"
         /\ ret = NoRet

\* the submission for the first of two stored contexts failed
C17_Witness ==
  /\ Ended("answer_challenges")
  /\ Len(cr._challenges) = 2
  /\ reqs = <<Req("POST", "challenge", 1, "error")>>

\* the last element of a non-empty set of positions
LastOf(S) == CHOOSE m \in S : \A x \in S : x <= m

\* C18: every context a request_tokens call stores holds the challenge that
\* the last combination of length one with a challenge of the requested
\* class refers to, and two stored contexts with the same authorization body
\* and the same challenge class hold the same challenge.
C18_LastSingleCombinationSelected ==
  /\ fr.op = "request_tokens" =>
       \A k \in 1..Len(Appended) :
         LET body == Appended[k].authzr.body
             S == SingleOfClass(body, ClassOf(fr.ctype))
         IN /\ S # {}
            /\ Appended[k].challb = body.challenges[body.combinations[LastOf(S)][1] + 1]
  /\ \A i, j \in 1..Len(cr._challenges) :
       ( /\ cr._challenges[i].authzr.body = cr._challenges[j].authzr.body
         /\ cr._challenges[i].challb.chall = cr._challenges[j].challb.chall )
         => cr._challenges[i].challb = cr._challenges[j].challb

\* a context was stored for an authorization in which two combinations of
\* length one refer to challenges of the requested class
C18_Witness ==
  /\ fr.op = "request_tokens"
  /\ \E k \in 1..Len(Appended) :
       Cardinality(SingleOfClass(Appended[k].authzr.body, ClassOf(fr.ctype))) = 2

\* the CA has issued the certificate in this call
Issued == \E k \in 1..Len(reqs) : reqs[k] = Req("POST", "new-cert", fr.csr, "ok")

\* C19: an answer_challenges call that fails in fetching the chain raises
\* ValueError, a call that fails in polling or in the issuance raises
\* SystemError; so a call raises ValueError exactly when it fails after the
\* CA has issued the certificate.
C19_ChainFailureDistinct ==
  Ended("answer_challenges") =>
    /\ (reqs # <<>> /\ reqs[Len(reqs)] = Req("GET", "chain", 1, "error"))
         => (result.exc = "ValueError" /\ Issued)
    /\ (result.exc # "none" /\ ~Issued) => result.exc = "SystemError"
    /\ (result.exc # "none" /\ Issued) => result.exc = "ValueError"

\* the certificate was issued and the fetch of the chain failed
C19_Witness ==
  /\ Ended("answer_challenges")
  /\ Issued
  /\ reqs[Len(reqs)] = Req("GET", "chain", 1, "error")

\* the domains of the new-authorization requests of the call, in the order sent
ContactedDomains ==
  LET sel == SelectSeq(reqs, LAMBDA q : q.to = "new-authz")
  IN [k \in 1..Len(sel) |-> sel[k].arg]

\* C20: a request_tokens call keeps the contexts stored before it and appends
\* after them; it contacts the CA for the domains in input order and stores
\* the k-th context for the k-th domain; a call that failed at its k-th
\* domain has contacted the CA for the first k domains only and has stored
\* k-1 contexts.  answer_challenges leaves the stored contexts as they are
\* and submits their answers in stored order, from the first one on.
C20_AppendOnlyInOrder ==
  /\ fr.op = "request_tokens" =>
       /\ Len(cr._challenges) >= Len(fr.pre)
       /\ SubSeq(cr._challenges, 1, Len(fr.pre)) = fr.pre
       /\ Len(ContactedDomains) <= Len(fr.domains)
       /\ ContactedDomains = SubSeq(fr.domains, 1, Len(ContactedDomains))
       /\ \A k \in 1..Len(Appended) :
            Appended[k].authzr.body.identifier = fr.domains[k]
       /\ (pc = "idle" /\ result.exc # "none" /\ reqs # <<>>)
            => /\ Len(ContactedDomains) = fr.i
               /\ Len(Appended) = fr.i - 1
  /\ fr.op = "answer_challenges" =>
       /\ cr._challenges = fr.pre
       /\ \A k \in 1..Len(reqs) :
            reqs[k].to = "challenge" => (reqs[k].arg = k /\ k <= Len(cr._challenges))
       /\ (reqs = <<>> /\ cr._challenges # <<>>) => pc = "ac_answer"

\* the only request_tokens call of the session failed at its second domain,
\* and a later answer_challenges has submitted the answer of the context
\* stored for the first
C20_Witness ==
  /\ fr.op = "answer_challenges"
  /\ hist.kept
  /\ hist.rcalls = 1
  /\ Len(cr._challenges) = 1
  /\ reqs # <<>>
  /\ reqs[1] = Req("POST", "challenge", 1, "ok")

\* the steps of the running call, which the program takes as long as it runs
CallStep ==
  RT_Request \/ RT_Poll \/ AC_Answer \/ AC_Poll \/ AC_Issue \/ AC_FetchChain

\* the session under a scheduler that lets the running call take its steps
SpecLive == Spec /\ WF_vars(CallStep)

\* every call ends, whatever the CA does: request_tokens polls each
\* authorization once, poll_and_request_issuance polls each authorization at
\* most MaxAttempts times
CallsEnd == (pc # "idle") ~> (pc = "idle")

\* C11: a call whose polls never saw a final state ends with the error of a
\* failed poll: answer_challenges, when an authorization was still neither
\* valid nor invalid after the last attempt, with the error of
\* poll_and_request_issuance, after at most MaxAttempts polls for each
\* authzr handed over, the authorization carrying the status seen last
\* (when no authzr was handed over twice);
\* request_tokens, when the authorization it polled lists no challenges yet,
\* with the error it raises for a failed poll.
C11_PollsEndWithPollError ==
  /\ (Ended("answer_challenges") /\ fr.exhausted # {})
       => /\ result = RequestingCertificateFailed
          /\ Cardinality({k \in 1..Len(reqs) : reqs[k].to = "authz"})
               <= MaxAttempts * Len(fr.authzrs)
          /\ \A a \in fr.exhausted :
               /\ fr.attempts[a] >= MaxAttempts
               /\ (\A i, j \in 1..Len(fr.authzrs) : fr.authzrs[i] = fr.authzrs[j] => i = j)
                    => fr.updated[a].body.status \notin {"valid", "invalid"}
  /\ (EndedAfterPoll /\ fr.authzr[1].body.challenges = <<>>)
       => result = ChallengeRequestingFailed

\* C16: request_tokens does not end with the error of a missing challenge
\* type for an authorization whose challenges it has not seen: it polls until
\* the authorization lists its challenges.
C16_PollsUntilChallengesVisible ==
  (pc = "idle" /\ result = TypeNotInAuthzr)
    => fr.authzr[1].body.challenges # <<>>

====
